---- MODULE Spec2Model ----
(***************************************************************************)
(* Browser-side scripts of maprando-plando: the seed upload handler        *)
(* (submitSeed, three variants), the modal helpers, the HSV colour picker, *)
(* form persistence and the ROM loader/validator.                          *)
(***************************************************************************)
EXTENDS Integers, Sequences, FiniteSets, TLC

VARIABLES
    variant,      \* which script file defines submitSeed on this page
    btnDisabled,  \* document.getElementById("btn-upload-submit").disabled
    hidden,       \* ids of the elements whose classList contains "hidden"
    errText,      \* document.getElementById("error-out").textContent
    location,     \* window.location.href ("page" until a navigation)
    calls,        \* the submitSeed invocations: position, response, caught error
    romField,     \* the file held by the "rom" file field ("none": no file, value == "")
    store,        \* localforage: the items vanillaRomName and vanillaRomData
    loader,       \* the loadROM call made when the script loads
    readers,      \* the saveROM invocations: the file being read, position
    patches,      \* the patchROM invocations: position, the romData read
    submits,      \* the form.submit() calls made by patchROM, in order
    pickerColorH, \* the colour state: hue,
    pickerColorS, \*   saturation,
    pickerColorV, \*   value
    form,         \* seed-form: the value and checked state of each control
    localStorage, \* localStorage["seed-form"], parsed: the list of saved entries
    display,      \* cursors, swatch, canvas and sprite preview as last drawn
    isMovingPicker,
    isMovingSlider,
    event,        \* the last event: its kind (load, drag, edit, other) and, for an edit, the text typed
    controls,     \* seed-form: the button chosen in each control_* radio group
    input,        \* the arguments a conversion function is applied to
    output        \* the values returned so far by the conversions applied to input

uploadVars == <<variant, btnDisabled, errText, location, calls>>

romVars == <<romField, store, loader, readers, patches, submits>>

pickerVars == <<pickerColorH, pickerColorS, pickerColorV, form, localStorage, display,
                isMovingPicker, isMovingSlider, event>>

convVars == <<input, output>>

vars == <<variant, btnDisabled, hidden, errText, location, calls,
          romField, store, loader, readers, patches, submits,
          pickerColorH, pickerColorS, pickerColorV, form, localStorage, display,
          isMovingPicker, isMovingSlider, event, controls, input, output>>

(***************************************************************************)
(* Visibility classes: openModal, closeModal                                *)
(***************************************************************************)

\* the elements that carry the class "hidden" when the page has loaded
InitHidden == {"modal-backdrop", "upload-modal", "romInvalid", "etank-picker"}

Modals == {"upload-modal"}

\* openModal(target): the new set of hidden elements
openModal(target) ==
    IF target \in Modals THEN hidden \ {"modal-backdrop", target} ELSE hidden

\* closeModal(): the new set of hidden elements
closeModal == hidden \cup {"modal-backdrop"} \cup Modals

(***************************************************************************)
(* Button assignments: swapButtonAssignment                                *)
(***************************************************************************)

\* the names of the control radio groups, in the order the loop visits them
actions == <<"control_shot", "control_jump", "control_dash", "control_item_select",
             "control_item_cancel", "control_angle_up", "control_angle_down">>

Actions == {actions[k] : k \in DOMAIN actions}

\* the values of the radios of each group, in document order: one per button
Buttons == <<"X", "Y", "A", "B", "L", "R", "Select">>

ButtonSet == {Buttons[k] : k \in DOMAIN Buttons}

\* the radios the page checks when it loads
DefaultControls ==
    [a \in Actions |->
        CASE a = "control_shot" -> "X"
          [] a = "control_jump" -> "A"
          [] a = "control_dash" -> "B"
          [] a = "control_item_select" -> "Select"
          [] a = "control_item_cancel" -> "Y"
          [] a = "control_angle_up" -> "R"
          [] a = "control_angle_down" -> "L"]

\* form.elements[action].value: the value of the checked radio of the group
RadioValue(groups, action) == groups[action]

\* form.elements[action].value = v: checks the first radio of the group whose
\* value is v; with no such radio the group stays as it is
SetRadioValue(groups, action, v) ==
    IF v \in ButtonSet THEN [groups EXCEPT ![action] = v] ELSE groups

\* the for loop of swapButtonAssignment from the k-th action on
RECURSIVE SwapLoop(_, _, _, _, _)
SwapLoop(groups, k, name, newButton, oldButton) ==
    IF k > Len(actions) THEN groups
    ELSE IF actions[k] = name THEN SwapLoop(groups, k + 1, name, newButton, oldButton)
    ELSE IF RadioValue(groups, actions[k]) = newButton
         THEN SwapLoop(SetRadioValue(groups, actions[k], oldButton), k + 1,
                       name, newButton, oldButton)
         ELSE SwapLoop(groups, k + 1, name, newButton, oldButton)

swapButtonAssignmentMut(groups, name, newButton) == groups

\* swapButtonAssignment(elem), elem being the label of the radio of the group
\* `name` whose value is newButton: the groups as the handler leaves them
swapButtonAssignment(groups, name, newButton) ==
    SwapLoop(groups, 1, name, newButton, RadioValue(groups, name))

\* A click on the label of a radio: the onclick handler runs while the group
\* still holds its old button, then the label checks its radio.
ClickButtonLabel(name, newButton) ==
    /\ controls' = [swapButtonAssignment(controls, name, newButton) EXCEPT ![name] = newButton]
    /\ UNCHANGED <<hidden, uploadVars, romVars, pickerVars, convVars>>

(***************************************************************************)
(* JavaScript Number arithmetic.  The colour state and everything derived  *)
(* from it are IEEE-754 binary64 values: each operation below computes the *)
(* exact result and rounds it to 53 significant bits, ties to even.        *)
(* Magnitudes are naturals held as little-endian sequences of limbs.       *)
(* Exponents stay far from the subnormal and overflow ranges here, so      *)
(* those are not represented.                                              *)
(***************************************************************************)

LimbBits == 15
Base == 2^LimbBits

\* `let name = value` followed by the statements F that use name: the value
\* is computed once
With(value, F(_)) == CHOOSE result \in {F(name) : name \in {value}} : TRUE

RECURSIVE BigTrim(_)
\* drop the most significant zero limbs
BigTrim(a) == IF a = <<>> THEN <<>>
              ELSE IF a[Len(a)] = 0 THEN BigTrim(SubSeq(a, 1, Len(a) - 1)) ELSE a

RECURSIVE BigFromInt(_)
BigFromInt(n) == IF n = 0 THEN <<>> ELSE <<n % Base>> \o BigFromInt(n \div Base)

RECURSIVE BigToInt(_)
BigToInt(a) == IF a = <<>> THEN 0 ELSE Head(a) + Base * BigToInt(Tail(a))

RECURSIVE BigCmpFrom(_, _, _)
BigCmpFrom(a, b, i) ==
    IF i = 0 THEN 0
    ELSE IF a[i] < b[i] THEN -1
    ELSE IF a[i] > b[i] THEN 1
    ELSE BigCmpFrom(a, b, i - 1)

\* -1, 0, 1 as a < b, a = b, a > b
BigCmp(a, b) ==
    IF Len(a) < Len(b) THEN -1
    ELSE IF Len(a) > Len(b) THEN 1
    ELSE BigCmpFrom(a, b, Len(a))

RECURSIVE BigAddC(_, _, _)
BigAddC(a, b, c) ==
    IF a = <<>> /\ b = <<>> THEN (IF c = 0 THEN <<>> ELSE <<c>>)
    ELSE IF b = <<>> /\ c = 0 THEN a
    ELSE IF a = <<>> /\ c = 0 THEN b
    ELSE LET x == (IF a = <<>> THEN 0 ELSE Head(a)) + (IF b = <<>> THEN 0 ELSE Head(b)) + c
         IN  <<x % Base>> \o BigAddC(IF a = <<>> THEN <<>> ELSE Tail(a),
                                     IF b = <<>> THEN <<>> ELSE Tail(b), x \div Base)

BigAdd(a, b) == BigAddC(a, b, 0)

RECURSIVE BigSubC(_, _, _)
BigSubC(a, b, c) ==
    IF a = <<>> THEN <<>>
    ELSE IF b = <<>> /\ c = 0 THEN a
    ELSE LET x == Head(a) - (IF b = <<>> THEN 0 ELSE Head(b)) - c
         IN  <<IF x < 0 THEN x + Base ELSE x>>
                \o BigSubC(Tail(a), IF b = <<>> THEN <<>> ELSE Tail(b), IF x < 0 THEN 1 ELSE 0)

\* a - b for a >= b
BigSub(a, b) == BigTrim(BigSubC(a, b, 0))

RECURSIVE BigMulSmallC(_, _, _)
BigMulSmallC(a, k, c) ==
    IF a = <<>> THEN (IF c = 0 THEN <<>> ELSE <<c>>)
    ELSE LET x == Head(a) * k + c
         IN  <<x % Base>> \o BigMulSmallC(Tail(a), k, x \div Base)

\* a * k for a limb k
BigMulSmall(a, k) == IF k = 0 THEN <<>> ELSE BigMulSmallC(a, k, 0)

\* a * Base^n
BigShlLimbs(a, n) == IF a = <<>> THEN <<>> ELSE [i \in 1..n |-> 0] \o a

RECURSIVE BigMul(_, _)
BigMul(a, b) ==
    IF a = <<>> \/ b = <<>> THEN <<>>
    ELSE BigAdd(BigMulSmall(a, Head(b)), BigShlLimbs(BigMul(a, Tail(b)), 1))

\* a * 2^n
BigShl(a, n) == BigShlLimbs(BigMulSmall(a, 2^(n % LimbBits)), n \div LimbBits)

RECURSIVE BigDivSmallFrom(_, _, _, _)
\* the limbs of a \div k, most significant first, from limb i down with remainder r
BigDivSmallFrom(a, k, i, r) ==
    IF i = 0 THEN <<>>
    ELSE LET cur == r * Base + a[i]
         IN  BigDivSmallFrom(a, k, i - 1, cur % k) \o <<cur \div k>>

\* a \div k for a limb k > 0
BigDivSmall(a, k) == BigTrim(BigDivSmallFrom(a, k, Len(a), 0))

\* a \div 2^n
BigShr(a, n) ==
    IF n \div LimbBits >= Len(a) THEN <<>>
    ELSE BigDivSmall(SubSeq(a, (n \div LimbBits) + 1, Len(a)), 2^(n % LimbBits))

\* a % 2^n
BigLowBits(a, n) ==
    IF n \div LimbBits >= Len(a) THEN a
    ELSE BigTrim(SubSeq(a, 1, n \div LimbBits) \o <<a[(n \div LimbBits) + 1] % 2^(n % LimbBits)>>)

RECURSIVE BitLen(_)
\* the number of bits of a limb
BitLen(x) == IF x = 0 THEN 0 ELSE 1 + BitLen(x \div 2)

BigBitLen(a) == IF a = <<>> THEN 0 ELSE (Len(a) - 1) * LimbBits + BitLen(a[Len(a)])

RECURSIVE TrailingZeros(_)
\* the number of trailing zero bits of a limb x > 0
TrailingZeros(x) == IF x % 2 = 1 THEN 0 ELSE 1 + TrailingZeros(x \div 2)

RECURSIVE BigTrailingZeros(_)
\* the number of trailing zero bits of a > 0
BigTrailingZeros(a) ==
    IF Head(a) = 0 THEN LimbBits + BigTrailingZeros(Tail(a)) ELSE TrailingZeros(Head(a))

BigIsOdd(a) == a # <<>> /\ Head(a) % 2 = 1

RECURSIVE BigDivModFrom(_, _, _, _)
\* long division of the limbs i..1 of u by v (normalised: its top limb is at
\* least Base/2), with r the remainder so far: [q, r], q most significant last
BigDivModFrom(u, v, i, r) ==
    IF i = 0 THEN [q |-> <<>>, r |-> r]
    ELSE With(BigTrim(<<u[i]>> \o r), LAMBDA cur :
         With((IF Len(cur) > Len(v) THEN cur[Len(v) + 1] * Base ELSE 0)
                 + (IF Len(cur) >= Len(v) THEN cur[Len(v)] ELSE 0), LAMBDA top :
         With(top \div v[Len(v)], LAMBDA est :
         With(IF est > Base - 1 THEN Base - 1 ELSE est, LAMBDA q0 :
         With(IF BigCmp(BigMulSmall(v, q0), cur) = 1 THEN q0 - 1 ELSE q0, LAMBDA q1 :
         With(IF BigCmp(BigMulSmall(v, q1), cur) = 1 THEN q1 - 1 ELSE q1, LAMBDA q2 :
         With(BigDivModFrom(u, v, i - 1, BigSub(cur, BigMulSmall(v, q2))), LAMBDA rest :
         [q |-> rest.q \o <<q2>>, r |-> rest.r])))))))

\* [q |-> u \div v, r |-> 0 iff v divides u] for v > 0
BigDivMod(u, v) ==
    With(LimbBits - BitLen(v[Len(v)]), LAMBDA sh :
    With(BigShl(u, sh), LAMBDA us :
    With(BigDivModFrom(us, BigShl(v, sh), Len(us), <<>>), LAMBDA res :
    [q |-> BigTrim(res.q), r |-> res.r])))

\* the Number 0
FZero == [s |-> 1, m |-> <<>>, e |-> 0]

\* the Number s * n * 2^e, n a magnitude of at most 53 bits
FCanon(s, n, e) ==
    IF n = <<>> THEN FZero
    ELSE With(BigTrailingZeros(n), LAMBDA z : [s |-> s, m |-> BigShr(n, z), e |-> e + z])

\* the Number nearest to s * n * 2^e, ties to even
FRound(s, n, e) ==
    IF BigBitLen(n) <= 53 THEN FCanon(s, n, e)
    ELSE With(BigBitLen(n) - 53, LAMBDA sh :
         With(BigShr(n, sh), LAMBDA q :
         With(BigCmp(BigLowBits(n, sh), BigShl(<<1>>, sh - 1)), LAMBDA cmp :
         FCanon(s, IF cmp = 1 \/ (cmp = 0 /\ BigIsOdd(q)) THEN BigAdd(q, <<1>>) ELSE q, e + sh))))

\* an integer as a Number
FInt(k) == IF k < 0 THEN FCanon(-1, BigFromInt(-k), 0) ELSE FCanon(1, BigFromInt(k), 0)

FNeg(x) == IF x.m = <<>> THEN x ELSE [x EXCEPT !.s = -x.s]

\* Math.abs
FAbs(x) == [x EXCEPT !.s = 1]

\* -1, 0, 1 as |x| < |y|, |x| = |y|, |x| > |y|
FCmpAbs(x, y) ==
    IF x.m = <<>> \/ y.m = <<>> THEN (IF x.m = y.m THEN 0 ELSE IF x.m = <<>> THEN -1 ELSE 1)
    ELSE IF BigBitLen(x.m) + x.e < BigBitLen(y.m) + y.e THEN -1
    ELSE IF BigBitLen(x.m) + x.e > BigBitLen(y.m) + y.e THEN 1
    ELSE LET e == IF x.e < y.e THEN x.e ELSE y.e
         IN  BigCmp(BigShl(x.m, x.e - e), BigShl(y.m, y.e - e))

\* x < y
FLt(x, y) ==
    IF x.m = <<>> THEN y.m # <<>> /\ y.s = 1
    ELSE IF y.m = <<>> THEN x.s = -1
    ELSE IF x.s # y.s THEN x.s = -1
    ELSE IF x.s = 1 THEN FCmpAbs(x, y) = -1 ELSE FCmpAbs(x, y) = 1

\* x >= y
FGe(x, y) == ~FLt(x, y)

\* Math.min, Math.max
FMin(x, y) == IF FLt(y, x) THEN y ELSE x
FMax(x, y) == IF FLt(x, y) THEN y ELSE x

\* x + y
FAdd(x, y) ==
    IF x.m = <<>> THEN y
    ELSE IF y.m = <<>> THEN x
    ELSE With(IF x.e < y.e THEN x.e ELSE y.e, LAMBDA e :
         With(BigShl(x.m, x.e - e), LAMBDA a :
         With(BigShl(y.m, y.e - e), LAMBDA b :
         With(BigCmp(a, b), LAMBDA c :
         IF x.s = y.s THEN FRound(x.s, BigAdd(a, b), e)
         ELSE IF c = 0 THEN FZero
         ELSE IF c = 1 THEN FRound(x.s, BigSub(a, b), e)
         ELSE FRound(y.s, BigSub(b, a), e)))))

\* x - y
FSub(x, y) == FAdd(x, FNeg(y))

\* x * y
FMul(x, y) == FRound(x.s * y.s, BigMul(x.m, y.m), x.e + y.e)

\* x / y for y # 0: the quotient to 56 bits or more, and a sticky bit for the rest
FDiv(x, y) ==
    IF x.m = <<>> THEN FZero
    ELSE With(IF BigBitLen(y.m) + 56 > BigBitLen(x.m)
              THEN BigBitLen(y.m) + 56 - BigBitLen(x.m) ELSE 0, LAMBDA k :
         With(BigDivMod(BigShl(x.m, k), y.m), LAMBDA d :
         FRound(x.s * y.s, BigAdd(BigShl(d.q, 1), IF d.r = <<>> THEN <<>> ELSE <<1>>),
                x.e - y.e - k - 1)))

\* x % 2 for x >= 0 (exact)
FMod2(x) ==
    IF x.m = <<>> \/ x.e >= 1 THEN FZero
    ELSE FCanon(1, BigLowBits(x.m, 1 - x.e), x.e)

\* the integer part of x >= 0, as an integer
FTrunc(x) ==
    IF x.m = <<>> THEN 0
    ELSE IF x.e >= 0 THEN BigToInt(BigShl(x.m, x.e))
    ELSE BigToInt(BigShr(x.m, -x.e))

(***************************************************************************)
(* ROM loader / validator                                                  *)
(***************************************************************************)

\* number of saveROM invocations followed
MaxSaves == 1

\* number of patchROM invocations followed
MaxPatches == 2

SaveIds == 1..MaxSaves
PatchIds == 1..MaxPatches

\* the ROM files a user can select, named by their content
Roms == {"vanilla", "headered"}

\* the digest patchROM compares against, and its 32 bytes
ExpectedHex == "12b77c4bc9c1832cee8881244659065ee1d84c70c3d29e6eaf92e6798cc2ca72"

ExpectedBytes ==
    <<18, 183, 124, 75, 201, 193, 131, 44, 238, 136, 129, 36, 70, 89, 6, 94,
      225, 216, 76, 112, 195, 210, 158, 110, 175, 146, 230, 121, 140, 194, 202, 114>>

\* crypto.subtle.digest("SHA-256", romData) for the ROMs of the model: the
\* vanilla ROM has the expected digest, the other one differs from it in one byte
Sha256(rom) ==
    IF rom = "vanilla" THEN ExpectedBytes ELSE [ExpectedBytes EXCEPT ![15] = 96]

HexDigits == <<"0", "1", "2", "3", "4", "5", "6", "7", "8", "9", "a", "b", "c", "d", "e", "f">>

\* b.toString(16) for a byte: one digit below 16, two otherwise
ByteToString16(b) ==
    IF b < 16 THEN HexDigits[b + 1] ELSE HexDigits[(b \div 16) + 1] \o HexDigits[(b % 16) + 1]

\* str.padStart(2, "0") for a string of one or two characters
PadStart2Mut(str) == str

PadStart2(str) == IF Len(str) < 2 THEN "0" \o str ELSE str

RECURSIVE Join(_)
\* strs.join("")
Join(strs) == IF strs = <<>> THEN "" ELSE Head(strs) \o Join(Tail(strs))

\* hashArray.map((b) => b.toString(16).padStart(2, "0")).join("")
HashHex(hashArray) == Join([i \in DOMAIN hashArray |-> PadStart2(ByteToString16(hashArray[i]))])

NoReader == [pc |-> "idle", file |-> "none"]
NoPatch == [pc |-> "idle", romData |-> "null"]

RomIdle ==
    /\ romField = "none"
    /\ store = [vanillaRomName |-> "null", vanillaRomData |-> "null"]
    /\ loader = [pc |-> "done", fileName |-> "null"]
    /\ readers = [t \in SaveIds |-> NoReader]
    /\ patches = [t \in PatchIds |-> NoPatch]
    /\ submits = <<>>

\* loadROM: `await localforage.getItem("vanillaRomName")` resolves
LoadROMGetName ==
    /\ loader.pc = "getName"
    /\ loader' = [pc |-> "getData", fileName |-> store.vanillaRomName]
    /\ UNCHANGED <<romField, store, readers, patches, submits, hidden, variant, controls, uploadVars, pickerVars, convVars>>

\* loadROM: `await localforage.getItem("vanillaRomData")` resolves; a stored
\* ROM becomes the file of the rom field
LoadROMGetData ==
    /\ loader.pc = "getData"
    /\ loader' = [pc |-> "done", fileName |-> "null"]
    /\ romField' = IF store.vanillaRomData # "null" THEN store.vanillaRomData ELSE romField
    /\ UNCHANGED <<store, readers, patches, submits, hidden, variant, controls, uploadVars, pickerVars, convVars>>

\* loadROM: a getItem rejects; the catch block logs the error
LoadROMFails ==
    /\ loader.pc \in {"getName", "getData"}
    /\ loader' = [pc |-> "caught", fileName |-> "null"]
    /\ UNCHANGED <<romField, store, readers, patches, submits, hidden, variant, controls, uploadVars, pickerVars, convVars>>

\* the user selects a file in the rom field: saveROM(field) starts reading it
saveROM(t, file) ==
    /\ readers[t].pc = "idle"
    /\ \A u \in SaveIds : u < t => readers[u].pc # "idle"
    /\ romField' = file
    /\ readers' = [readers EXCEPT ![t] = [pc |-> "reading", file |-> file]]
    /\ UNCHANGED <<store, loader, patches, submits, hidden, variant, controls, uploadVars, pickerVars, convVars>>

\* reader.onload fires: the first setItem is issued
ReaderOnload(t) ==
    /\ readers[t].pc = "reading"
    /\ readers' = [readers EXCEPT ![t].pc = "setName"]
    /\ UNCHANGED <<romField, store, loader, patches, submits, hidden, variant, controls, uploadVars, pickerVars, convVars>>

\* `await localforage.setItem("vanillaRomName", file.name)` completes
SetNameDone(t) ==
    /\ readers[t].pc = "setName"
    /\ store' = [store EXCEPT !.vanillaRomName = readers[t].file]
    /\ readers' = [readers EXCEPT ![t].pc = "setData"]
    /\ UNCHANGED <<romField, loader, patches, submits, hidden, variant, controls, uploadVars, pickerVars, convVars>>

\* `await localforage.setItem("vanillaRomData", reader.result)` completes
SetDataDone(t) ==
    /\ readers[t].pc = "setData"
    /\ store' = [store EXCEPT !.vanillaRomData = readers[t].file]
    /\ readers' = [readers EXCEPT ![t] = [pc |-> "done", file |-> "none"]]
    /\ UNCHANGED <<romField, loader, patches, submits, hidden, variant, controls, uploadVars, pickerVars, convVars>>

\* a setItem rejects; the catch block logs the error
SetItemFails(t) ==
    /\ readers[t].pc \in {"setName", "setData"}
    /\ readers' = [readers EXCEPT ![t] = [pc |-> "caught", file |-> "none"]]
    /\ UNCHANGED <<romField, store, loader, patches, submits, hidden, variant, controls, uploadVars, pickerVars, convVars>>

\* patchROM(form) up to its first await: returns false when no file is selected
patchROM(t) ==
    /\ patches[t].pc = "idle"
    /\ \A u \in PatchIds : u < t => patches[u].pc # "idle"
    /\ patches' = [patches EXCEPT ![t].pc = IF romField = "none" THEN "returned" ELSE "getItem"]
    /\ UNCHANGED <<romField, store, loader, readers, submits, hidden, variant, controls, uploadVars, pickerVars, convVars>>

\* `await localforage.getItem("vanillaRomData")` resolves
PatchGetItem(t) ==
    /\ patches[t].pc = "getItem"
    /\ patches' = [patches EXCEPT ![t].pc = "digest", ![t].romData = store.vanillaRomData]
    /\ UNCHANGED <<romField, store, loader, readers, submits, hidden, variant, controls, uploadVars, pickerVars, convVars>>

\* `await crypto.subtle.digest(...)` rejects: romData is null (nothing stored)
PatchDigestRejects(t) ==
    /\ patches[t].pc = "digest"
    /\ patches[t].romData = "null"
    /\ patches' = [patches EXCEPT ![t].pc = "threw"]
    /\ UNCHANGED <<romField, store, loader, readers, submits, hidden, variant, controls, uploadVars, pickerVars, convVars>>

\* `await crypto.subtle.digest(...)` resolves: hex-encode, compare, warn or submit
PatchDigestResolves(t) ==
    /\ patches[t].pc = "digest"
    /\ patches[t].romData # "null"
    /\ IF HashHex(Sha256(patches[t].romData)) # ExpectedHex
       THEN /\ hidden' = hidden \ {"romInvalid"}
            /\ patches' = [patches EXCEPT ![t] = [pc |-> "invalid", romData |-> "null"]]
            /\ UNCHANGED submits
       ELSE /\ submits' = Append(submits, [romData |-> patches[t].romData, field |-> romField])
            /\ patches' = [patches EXCEPT ![t] = [pc |-> "submitted", romData |-> "null"]]
            /\ UNCHANGED hidden
    /\ UNCHANGED <<romField, store, loader, readers, variant, controls, uploadVars, pickerVars, convVars>>

(***************************************************************************)
(* Form persistence: saveForm                                              *)
(***************************************************************************)

\* the controls of seed-form in document order; for a radio or a checkbox
\* `value` is its value attribute, for the others the value the page loads with
Elements == <<
    [id |-> "samusSprite", type |-> "hidden", name |-> "samusSprite", value |-> "samus_vanilla"],
    [id |-> "etankColor", type |-> "text", name |-> "etankColor", value |-> ""],
    [id |-> "rom", type |-> "file", name |-> "rom", value |-> ""],
    [id |-> "roomPalettesVanilla", type |-> "radio", name |-> "room_palettes", value |-> "vanilla"],
    [id |-> "roomPalettesAreaThemed", type |-> "radio", name |-> "room_palettes", value |-> "area_themed"],
    [id |-> "tileTheme", type |-> "select-one", name |-> "tile_theme", value |-> "none"],
    [id |-> "flashing", type |-> "checkbox", name |-> "flashing", value |-> "on"],
    [id |-> "patch-button", type |-> "button", name |-> "", value |-> "Patch"] >>

ElemIds == DOMAIN Elements

\* the index of the element with the given id
ById(id) == CHOOSE i \in ElemIds : Elements[i].id = id

\* the form as the page loads it: nothing checked, default values
DefaultForm == [i \in ElemIds |-> [value |-> Elements[i].value, checked |-> FALSE]]

\* obj[name] !== undefined, for an object held as its list of entries
Has(obj, name) == \E k \in DOMAIN obj : obj[k].name = name

\* obj[name]
Get(obj, name) == obj[CHOOSE k \in DOMAIN obj : obj[k].name = name].value

\* obj[name] = value: an existing entry keeps its place, a new one comes last
Put(obj, name, value) ==
    IF Has(obj, name)
    THEN [k \in DOMAIN obj |-> IF obj[k].name = name THEN [name |-> name, value |-> value] ELSE obj[k]]
    ELSE Append(obj, [name |-> name, value |-> value])

RECURSIVE saveFormFrom(_, _, _)
\* the loop of saveForm from element i on, with res as built so far
saveFormFrom(f, i, res) ==
    IF i > Len(Elements) THEN res
    ELSE LET elem == Elements[i] IN
         IF elem.type = "file" \/ elem.name = "" THEN saveFormFrom(f, i + 1, res)
         ELSE IF elem.type = "radio" /\ ~f[i].checked
              THEN saveFormFrom(f, i + 1, IF ~Has(res, elem.name) THEN Put(res, elem.name, "") ELSE res)
         ELSE IF elem.type = "checkbox" THEN saveFormFrom(f, i + 1, Put(res, elem.name, f[i].checked))
         ELSE saveFormFrom(f, i + 1, Put(res, elem.name, f[i].value))

\* saveForm(form): the value stored in localStorage[form.id].  JSON.stringify
\* writes the entries of res in insertion order, and JSON.parse reads them back
saveForm(f) == saveFormFrom(f, 1, <<>>)

(***************************************************************************)
(* Colour picker                                                           *)
(***************************************************************************)

\* extent of the colour surface and of the hue strip, in pixels
PickerSize == 3
SliderSize == 6

\* picker.getBoundingClientRect(), slider.getBoundingClientRect()
PickerBbox == [left |-> 10, top |-> 20, right |-> 10 + PickerSize, bottom |-> 20 + PickerSize]
SliderBbox == [left |-> 30, top |-> 20, right |-> 40, bottom |-> 20 + SliderSize]

\* hsvToRgb with the second sector taking the channels of the first
hsvToRgbMut(h, s, v) ==
    With(FMul(v, s), LAMBDA c :
    With(FMul(c, FSub(FInt(1), FAbs(FSub(FMod2(FDiv(h, FInt(60))), FInt(1))))), LAMBDA x :
    With(FSub(v, c), LAMBDA m :
    With(IF FLt(h, FInt(120)) THEN <<c, x, FZero>>
               ELSE IF FLt(h, FInt(180)) THEN <<FZero, c, x>>
               ELSE IF FLt(h, FInt(240)) THEN <<FZero, x, c>>
               ELSE IF FLt(h, FInt(300)) THEN <<x, FZero, c>>
               ELSE <<c, FZero, x>>, LAMBDA rgb :
    <<FMax(FMin(FMul(FAdd(rgb[1], m), FInt(255)), FInt(255)), FZero),
      FMax(FMin(FMul(FAdd(rgb[2], m), FInt(255)), FInt(255)), FZero),
      FMax(FMin(FMul(FAdd(rgb[3], m), FInt(255)), FInt(255)), FZero)>>))))

\* hsvToRgb() for the colour state (h, s, v)
hsvToRgb(h, s, v) ==
    With(FMul(v, s), LAMBDA c :
    With(FMul(c, FSub(FInt(1), FAbs(FSub(FMod2(FDiv(h, FInt(60))), FInt(1))))), LAMBDA x :
    With(FSub(v, c), LAMBDA m :
    With(IF FLt(h, FInt(60)) THEN <<c, x, FZero>>
               ELSE IF FLt(h, FInt(120)) THEN <<x, c, FZero>>
               ELSE IF FLt(h, FInt(180)) THEN <<FZero, c, x>>
               ELSE IF FLt(h, FInt(240)) THEN <<FZero, x, c>>
               ELSE IF FLt(h, FInt(300)) THEN <<x, FZero, c>>
               ELSE <<c, FZero, x>>, LAMBDA rgb :
    <<FMax(FMin(FMul(FAdd(rgb[1], m), FInt(255)), FInt(255)), FZero),
      FMax(FMin(FMul(FAdd(rgb[2], m), FInt(255)), FInt(255)), FZero),
      FMax(FMin(FMul(FAdd(rgb[3], m), FInt(255)), FInt(255)), FZero)>>))))

\* rgbToHsv(r, g, b)
rgbToHsv(r, g, b) ==
    With(FMax(FMax(r, g), b), LAMBDA max :
    With(FMin(FMin(r, g), b), LAMBDA min :
    With(FDiv(max, FInt(255)), LAMBDA v :
    With(IF max # FZero THEN FDiv(FSub(max, min), max) ELSE FZero, LAMBDA s :
    With(FSub(max, min), LAMBDA d :
    With(IF d = FZero THEN FZero
         ELSE IF FGe(r, g) /\ FGe(r, b) THEN FDiv(FMul(FInt(60), FSub(g, b)), d)
         ELSE IF FGe(g, r) /\ FGe(g, b)
              THEN FAdd(FInt(120), FDiv(FMul(FInt(60), FSub(b, r)), d))
         ELSE FAdd(FInt(240), FDiv(FMul(FInt(60), FSub(r, g)), d)), LAMBDA h :
    <<IF FLt(h, FZero) THEN FAdd(h, FInt(360)) ELSE h, s, v>>))))))

\* new Uint8Array(pickerColor): each channel truncated to an integer modulo 256
Uint8Array(rgb) == [k \in DOMAIN rgb |-> FTrunc(rgb[k]) % 256]

\* toHex without the leading zero of a byte below 16
toHexMut(arr) == Join([k \in DOMAIN arr |-> IF arr[k] < 16 THEN HexDigits[arr[k] + 1]
                                            ELSE HexDigits[(arr[k] \div 16) + 1] \o HexDigits[(arr[k] % 16) + 1]])

\* arr.toHex(): two lower-case hexadecimal digits per byte
toHex(arr) == Join([k \in DOMAIN arr |-> HexDigits[(arr[k] \div 16) + 1] \o HexDigits[(arr[k] % 16) + 1]])

\* the value of a hexadecimal digit in either letter case, -1 for any other character
HexValue(ch) ==
    IF \E d \in 1..16 : HexDigits[d] = ch THEN (CHOOSE d \in 1..16 : HexDigits[d] = ch) - 1
    ELSE IF ch = "A" THEN 10 ELSE IF ch = "B" THEN 11 ELSE IF ch = "C" THEN 12
    ELSE IF ch = "D" THEN 13 ELSE IF ch = "E" THEN 14 ELSE IF ch = "F" THEN 15
    ELSE -1

\* the pattern without its i flag: upper-case digits do not match
RegexExecMut(text) ==
    LET body == IF Len(text) > 0 /\ Head(text) = "#" THEN Tail(text) ELSE text
    IN  IF Len(body) = 6 /\ \A k \in 1..6 : \E d \in 1..16 : HexDigits[d] = SubSeq(body, k, k)
        THEN <<SubSeq(body, 1, 2), SubSeq(body, 3, 4), SubSeq(body, 5, 6)>>
        ELSE <<>>

\* /^#?([a-f\d]{2})([a-f\d]{2})([a-f\d]{2})$/i.exec(text): the three groups, or <<>> for null
RegexExec(text) ==
    LET body == IF Len(text) > 0 /\ Head(text) = "#" THEN Tail(text) ELSE text
    IN  IF Len(body) = 6 /\ \A k \in 1..6 : HexValue(SubSeq(body, k, k)) >= 0
        THEN <<SubSeq(body, 1, 2), SubSeq(body, 3, 4), SubSeq(body, 5, 6)>>
        ELSE <<>>

\* parseInt(str, 16) for two hexadecimal digits
ParseInt16(str) == 16 * HexValue(SubSeq(str, 1, 1)) + HexValue(SubSeq(str, 2, 2))

EtankColor == ById("etankColor")
SamusSprite == ById("samusSprite")

\* setPickerColor without its call of saveForm
setPickerColorMut(p) ==
    With(hsvToRgb(p.h, p.s, p.v), LAMBDA pickerColor :
    With(FAdd(FInt(-10), FMul(p.s, FInt(PickerBbox.right - PickerBbox.left))), LAMBDA pickerX :
    With(FAdd(FInt(-10), FMul(FSub(FInt(1), p.v), FInt(PickerBbox.bottom - PickerBbox.top))), LAMBDA pickerY :
    With(FAdd(FInt(-6), FMul(FDiv(p.h, FInt(360)), FInt(SliderBbox.bottom - SliderBbox.top))), LAMBDA sliderY :
    With([p.form EXCEPT ![EtankColor].value = toHex(Uint8Array(pickerColor))], LAMBDA f :
        [p EXCEPT !.form = f,
                  !.display = [p.display EXCEPT !.pickerCursor = <<pickerX, pickerY, pickerColor>>,
                                                !.sliderCursor = <<sliderY, p.h>>,
                                                !.swatch = pickerColor,
                                                !.canvas = p.h]])))))

\* setPickerColor() in the state p = [h, s, v, form, storage, display]: the
\* cursors, the field, the stored form, the swatch and the canvas after it
setPickerColor(p) ==
    With(hsvToRgb(p.h, p.s, p.v), LAMBDA pickerColor :
    With(FAdd(FInt(-10), FMul(p.s, FInt(PickerBbox.right - PickerBbox.left))), LAMBDA pickerX :
    With(FAdd(FInt(-10), FMul(FSub(FInt(1), p.v), FInt(PickerBbox.bottom - PickerBbox.top))), LAMBDA pickerY :
    With(FAdd(FInt(-6), FMul(FDiv(p.h, FInt(360)), FInt(SliderBbox.bottom - SliderBbox.top))), LAMBDA sliderY :
    With([p.form EXCEPT ![EtankColor].value = toHex(Uint8Array(pickerColor))], LAMBDA f :
        [p EXCEPT !.form = f,
                  !.storage = saveForm(f),
                  !.display = [p.display EXCEPT !.pickerCursor = <<pickerX, pickerY, pickerColor>>,
                                                !.sliderCursor = <<sliderY, p.h>>,
                                                !.swatch = pickerColor,
                                                !.canvas = p.h]])))))

\* Math.min(Math.max(ratio, 0), 1)
Clamp01(ratio) == FMin(FMax(ratio, FZero), FInt(1))

\* setPickerSV(x, y)
setPickerSV(p, x, y) ==
    LET xRatio == Clamp01(FDiv(FInt(x - PickerBbox.left), FInt(PickerBbox.right - PickerBbox.left)))
        yRatio == Clamp01(FDiv(FInt(y - PickerBbox.top), FInt(PickerBbox.bottom - PickerBbox.top)))
    IN  setPickerColor([p EXCEPT !.s = xRatio, !.v = FSub(FInt(1), yRatio)])

\* setPickerH(y)
setPickerH(p, y) ==
    LET yRatio == Clamp01(FDiv(FInt(y - SliderBbox.top), FInt(SliderBbox.bottom - SliderBbox.top)))
    IN  setPickerColor([p EXCEPT !.h = FMul(FInt(360), yRatio)])

\* pickerValueChanged()
pickerValueChanged(p) ==
    With(RegexExec(p.form[EtankColor].value), LAMBDA result :
        IF result = <<>> THEN p
        ELSE With(rgbToHsv(FInt(ParseInt16(result[1])), FInt(ParseInt16(result[2])), FInt(ParseInt16(result[3]))),
                  LAMBDA hsv : setPickerColor([p EXCEPT !.h = hsv[1], !.s = hsv[2], !.v = hsv[3]])))

\* colorPickerVanilla(): the literals 0.766 and 0.871 are the Numbers nearest to them
colorPickerVanilla(p) ==
    setPickerColor([p EXCEPT !.h = FInt(325), !.s = FDiv(FInt(766), FInt(1000)), !.v = FDiv(FInt(871), FInt(1000))])

(***************************************************************************)
(* Form persistence: loadForm, and the page load                           *)
(***************************************************************************)

\* the sprites offered by the sprite modal (data-name)
Sprites == {"samus_vanilla", "samus_custom"}

RECURSIVE loadFormFrom(_, _, _)
\* the loop of loadForm from element i on; checking a radio unchecks the
\* other radios of its group
loadFormFrom(f, data, i) ==
    IF i > Len(Elements) THEN f
    ELSE LET elem == Elements[i] IN
         IF elem.type = "file" \/ elem.name = "" THEN loadFormFrom(f, data, i + 1)
         ELSE IF elem.type = "radio"
              THEN IF Has(data, elem.name) /\ Get(data, elem.name) = elem.value
                   THEN loadFormFrom([j \in ElemIds |->
                            IF j = i THEN [f[j] EXCEPT !.checked = TRUE]
                            ELSE IF Elements[j].type = "radio" /\ Elements[j].name = elem.name
                                 THEN [f[j] EXCEPT !.checked = FALSE]
                            ELSE f[j]], data, i + 1)
                   ELSE IF Has(data, elem.name)
                        THEN loadFormFrom([f EXCEPT ![i].checked = FALSE], data, i + 1)
                   ELSE loadFormFrom(f, data, i + 1)
         ELSE IF Has(data, elem.name)
              THEN IF elem.type = "checkbox"
                   THEN loadFormFrom([f EXCEPT ![i].checked = Get(data, elem.name)], data, i + 1)
                   ELSE loadFormFrom([f EXCEPT ![i].value = Get(data, elem.name)], data, i + 1)
         ELSE loadFormFrom(f, data, i + 1)

\* updateSpriteDisplay(): the preview follows the hidden input when a sprite has its name
updateSpriteDisplay(p) ==
    IF p.form[SamusSprite].value \in Sprites
    THEN [p EXCEPT !.display.sprite = p.form[SamusSprite].value]
    ELSE p

\* loadForm(form)
loadForm(p) ==
    IF p.storage = <<>> THEN colorPickerVanilla(p)
    ELSE pickerValueChanged(updateSpriteDisplay([p EXCEPT !.form = loadFormFrom(p.form, p.storage, 1)]))

\* what the page shows before any script has run
InitDisplay == [pickerCursor |-> <<>>, sliderCursor |-> <<>>, swatch |-> <<>>, canvas |-> <<>>,
                sprite |-> "samus_vanilla"]

\* the script runs top to bottom over a fresh document: the colour state gets
\* its initial values (0, 1, 1) and loadForm is called on seed-form;
\* an absent localStorage item is the empty list
PageLoad(storage) ==
    loadForm([h |-> FZero, s |-> FInt(1), v |-> FInt(1), form |-> DefaultForm,
              storage |-> storage, display |-> InitDisplay])

(***************************************************************************)
(* Colour picker and form: handlers                                        *)
(***************************************************************************)

\* the state the pure handlers work on
Cur == [h |-> pickerColorH, s |-> pickerColorS, v |-> pickerColorV,
        form |-> form, storage |-> localStorage, display |-> display]

Apply(q) ==
    /\ pickerColorH' = q.h
    /\ pickerColorS' = q.s
    /\ pickerColorV' = q.v
    /\ form' = q.form
    /\ localStorage' = q.storage
    /\ display' = q.display

\* pointer positions (ev.x, ev.y): left of, inside and right of the colour
\* surface; above, inside and below both the colour surface and the hue strip
Pointers == { <<PickerBbox.left - 1, PickerBbox.top - 1>>,
              <<PickerBbox.left + 1, PickerBbox.top + 1>>,
              <<PickerBbox.right + 1, PickerBbox.top + 1>>,
              <<PickerBbox.left + 1, SliderBbox.bottom + 1>>,
              <<PickerBbox.right + 1, SliderBbox.bottom + 1>> }

\* texts a user can leave in the etankColor field
HexTexts == {"#1A2b3C", "1a2B3c", "1a2b3", "#1g2b3c"}

\* click on etank-button
EtankButtonClick ==
    /\ hidden' = hidden \ {"etank-picker"}
    /\ Apply(setPickerColor(Cur))
    /\ event' = [kind |-> "other", text |-> ""]
    /\ UNCHANGED <<isMovingPicker, isMovingSlider>>
    /\ UNCHANGED <<variant, controls, uploadVars, romVars, convVars>>

\* mousedown on the colour surface or its cursor
MouseDownPicker ==
    /\ "etank-picker" \notin hidden
    /\ isMovingPicker' = TRUE
    /\ event' = [kind |-> "other", text |-> ""]
    /\ UNCHANGED <<pickerColorH, pickerColorS, pickerColorV, form, localStorage, display,
                   isMovingSlider, hidden>>
    /\ UNCHANGED <<variant, controls, uploadVars, romVars, convVars>>

\* mousedown on the hue strip or its cursor
MouseDownSlider ==
    /\ "etank-picker" \notin hidden
    /\ isMovingSlider' = TRUE
    /\ event' = [kind |-> "other", text |-> ""]
    /\ UNCHANGED <<pickerColorH, pickerColorS, pickerColorV, form, localStorage, display,
                   isMovingPicker, hidden>>
    /\ UNCHANGED <<variant, controls, uploadVars, romVars, convVars>>

\* mousemove on the window while a drag is on
MouseMove(x, y) ==
    /\ isMovingPicker \/ isMovingSlider
    /\ Apply(IF isMovingSlider
             THEN setPickerH(IF isMovingPicker THEN setPickerSV(Cur, x, y) ELSE Cur, y)
             ELSE setPickerSV(Cur, x, y))
    /\ event' = [kind |-> "drag", text |-> ""]
    /\ UNCHANGED <<isMovingPicker, isMovingSlider, hidden>>
    /\ UNCHANGED <<variant, controls, uploadVars, romVars, convVars>>

\* mouseup on the window
MouseUp ==
    /\ isMovingPicker \/ isMovingSlider
    /\ isMovingPicker' = FALSE
    /\ isMovingSlider' = FALSE
    /\ event' = [kind |-> "other", text |-> ""]
    /\ UNCHANGED <<pickerColorH, pickerColorS, pickerColorV, form, localStorage, display, hidden>>
    /\ UNCHANGED <<variant, controls, uploadVars, romVars, convVars>>

\* the user edits the etankColor field to text and pickerValueChanged runs
HexEdit(text) ==
    /\ Apply(pickerValueChanged([Cur EXCEPT !.form[EtankColor].value = text]))
    /\ event' = [kind |-> "edit", text |-> text]
    /\ UNCHANGED <<isMovingPicker, isMovingSlider, hidden>>
    /\ UNCHANGED <<variant, controls, uploadVars, romVars, convVars>>

\* selectSprite(sprite)
selectSprite(name) ==
    /\ LET f == [form EXCEPT ![SamusSprite].value = name]
       IN  Apply([Cur EXCEPT !.form = f, !.display.sprite = name, !.storage = saveForm(f)])
    /\ hidden' = closeModal
    /\ event' = [kind |-> "other", text |-> ""]
    /\ UNCHANGED <<isMovingPicker, isMovingSlider>>
    /\ UNCHANGED <<variant, controls, uploadVars, romVars, convVars>>

\* the user checks a radio button or ticks the checkbox
CheckRadio(i) ==
    /\ Elements[i].type = "radio"
    /\ form' = [j \in ElemIds |->
                    IF j = i THEN [form[j] EXCEPT !.checked = TRUE]
                    ELSE IF Elements[j].type = "radio" /\ Elements[j].name = Elements[i].name
                         THEN [form[j] EXCEPT !.checked = FALSE]
                    ELSE form[j]]
    /\ event' = [kind |-> "other", text |-> ""]
    /\ UNCHANGED <<pickerColorH, pickerColorS, pickerColorV, localStorage, display,
                   isMovingPicker, isMovingSlider, hidden>>
    /\ UNCHANGED <<variant, controls, uploadVars, romVars, convVars>>

ToggleCheckbox(i) ==
    /\ Elements[i].type = "checkbox"
    /\ form' = [form EXCEPT ![i].checked = ~form[i].checked]
    /\ event' = [kind |-> "other", text |-> ""]
    /\ UNCHANGED <<pickerColorH, pickerColorS, pickerColorV, localStorage, display,
                   isMovingPicker, isMovingSlider, hidden>>
    /\ UNCHANGED <<variant, controls, uploadVars, romVars, convVars>>

\* saveForm(form) called on the form as it stands
SaveForm ==
    /\ localStorage' = saveForm(form)
    /\ event' = [kind |-> "other", text |-> ""]
    /\ UNCHANGED <<pickerColorH, pickerColorS, pickerColorV, form, display,
                   isMovingPicker, isMovingSlider, hidden>>
    /\ UNCHANGED <<variant, controls, uploadVars, romVars, convVars>>

\* the page is loaded again: a fresh document, the same localStorage
Reload ==
    /\ Apply(PageLoad(localStorage))
    /\ isMovingPicker' = FALSE
    /\ isMovingSlider' = FALSE
    /\ hidden' = InitHidden
    /\ event' = [kind |-> "load", text |-> ""]
    /\ UNCHANGED <<variant, controls, uploadVars, romVars, convVars>>

\* no conversion is under examination
ConvIdle ==
    /\ input = <<>>
    /\ output = <<>>

PickerIdle ==
    /\ pickerColorH = FZero
    /\ pickerColorS = FInt(1)
    /\ pickerColorV = FInt(1)
    /\ form = DefaultForm
    /\ localStorage = <<>>
    /\ display = InitDisplay
    /\ isMovingPicker = FALSE
    /\ isMovingSlider = FALSE
    /\ event = [kind |-> "load", text |-> ""]

\* the first visit: the page has loaded with nothing stored
PickerLoaded ==
    /\ \E q \in {PageLoad(<<>>)} :
           /\ pickerColorH = q.h
           /\ pickerColorS = q.s
           /\ pickerColorV = q.v
           /\ form = q.form
           /\ localStorage = q.storage
           /\ display = q.display
    /\ isMovingPicker = FALSE
    /\ isMovingSlider = FALSE
    /\ event = [kind |-> "load", text |-> ""]

(***************************************************************************)
(* Upload controller                                                       *)
(***************************************************************************)

\* number of submitSeed invocations followed
MaxCalls == 2

CallIds == 1..MaxCalls

Variants == {"upload", "script", "part000"}

\* what fetch can reject with, as `${e}` prints it
FetchErrors == {"TypeError: Failed to fetch", "TypeError: NetworkError when attempting to fetch resource."}

\* response bodies: two JSON documents, and plain text
JsonBodies == {"{\"seed_id\":\"abc\"}", "{\"seed_url\":\"seed/abc\"}"}
TextBodies == {"server error", ""}
Statuses == {200, 404, 500}

\* Response.ok: the status is in the range 200-299
ResponseOk(status) == status >= 200 /\ status <= 299

\* response.json() resolves when the body is a JSON document and rejects otherwise
JsonValid(body) == body \in JsonBodies

\* response.json(): the parsed document
JsonParse(body) ==
    IF body = "{\"seed_id\":\"abc\"}" THEN [seed_id |-> "abc"] ELSE [seed_url |-> "seed/abc"]

\* responseJson[key], printed as string concatenation prints it
JsonGet(json, key) == IF key \in DOMAIN json THEN json[key] ELSE "undefined"

\* only upload.js touches the submit control and the modal
TouchesControls == variant = "upload"

NoCall == [pc |-> "idle", status |-> 0, body |-> "", e |-> ""]

InFlight(i) == calls[i].pc \in {"fetch", "json", "text"}

\* the user activates the submit control: submitSeed runs up to `await fetch`
submitSeed(i) ==
    /\ location = "page"
    /\ ~btnDisabled
    /\ calls[i].pc = "idle"
    /\ \A j \in CallIds : j < i => calls[j].pc # "idle"
    /\ btnDisabled' = IF TouchesControls THEN TRUE ELSE btnDisabled
    /\ hidden' = IF TouchesControls THEN openModal("upload-modal") ELSE hidden
    /\ calls' = [calls EXCEPT ![i].pc = "fetch"]
    /\ UNCHANGED <<variant, controls, errText, location, romVars, pickerVars, convVars>>

\* fetch rejects: the catch block
FetchRejectsMut(i, e) ==
    /\ location = "page"
    /\ calls[i].pc = "fetch"
    /\ errText' = "Error: " \o e
    /\ hidden' = IF TouchesControls THEN closeModal ELSE hidden
    /\ calls' = [calls EXCEPT ![i].pc = "caught", ![i].e = e]
    /\ UNCHANGED <<variant, controls, location, btnDisabled, romVars, pickerVars, convVars>>

FetchRejects(i, e) ==
    /\ location = "page"
    /\ calls[i].pc = "fetch"
    /\ errText' = "Error: " \o e
    /\ hidden' = IF TouchesControls THEN closeModal ELSE hidden
    /\ btnDisabled' = IF TouchesControls THEN FALSE ELSE btnDisabled
    /\ calls' = [calls EXCEPT ![i].pc = "caught", ![i].e = e]
    /\ UNCHANGED <<variant, controls, location, romVars, pickerVars, convVars>>

\* fetch resolves: `if (response.ok)` chooses which body read is awaited
FetchResolves(i, status, body) ==
    /\ location = "page"
    /\ calls[i].pc = "fetch"
    /\ calls' = [calls EXCEPT ![i].pc = IF ResponseOk(status) THEN "json" ELSE "text",
                              ![i].status = status, ![i].body = body]
    /\ UNCHANGED <<variant, controls, btnDisabled, hidden, errText, location, romVars, pickerVars, convVars>>

\* response.json() resolves: navigate
JsonResolves(i) ==
    /\ location = "page"
    /\ calls[i].pc = "json"
    /\ JsonValid(calls[i].body)
    /\ location' = IF variant = "script"
                   THEN JsonGet(JsonParse(calls[i].body), "seed_url")
                   ELSE "seed/" \o JsonGet(JsonParse(calls[i].body), "seed_id")
    /\ calls' = [calls EXCEPT ![i].pc = "navigated"]
    /\ UNCHANGED <<variant, controls, btnDisabled, hidden, errText, romVars, pickerVars, convVars>>

\* response.json() rejects: the exception leaves submitSeed
JsonRejects(i) ==
    /\ location = "page"
    /\ calls[i].pc = "json"
    /\ ~JsonValid(calls[i].body)
    /\ calls' = [calls EXCEPT ![i].pc = "threw"]
    /\ UNCHANGED <<variant, controls, btnDisabled, hidden, errText, location, romVars, pickerVars, convVars>>

\* response.text() resolves: the else branch
TextResolvesMut(i) ==
    /\ location = "page"
    /\ calls[i].pc = "text"
    /\ errText' = "Error status " \o ToString(calls[i].status) \o ": " \o calls[i].body
    /\ btnDisabled' = IF TouchesControls THEN FALSE ELSE btnDisabled
    /\ calls' = [calls EXCEPT ![i].pc = "reported"]
    /\ UNCHANGED <<variant, controls, location, hidden, romVars, pickerVars, convVars>>

TextResolves(i) ==
    /\ location = "page"
    /\ calls[i].pc = "text"
    /\ errText' = "Error status " \o ToString(calls[i].status) \o ": " \o calls[i].body
    /\ hidden' = IF TouchesControls THEN closeModal ELSE hidden
    /\ btnDisabled' = IF TouchesControls THEN FALSE ELSE btnDisabled
    /\ calls' = [calls EXCEPT ![i].pc = "reported"]
    /\ UNCHANGED <<variant, controls, location, romVars, pickerVars, convVars>>

\* response.text() rejects (the body stream fails): the exception leaves submitSeed
TextRejects(i) ==
    /\ location = "page"
    /\ calls[i].pc = "text"
    /\ calls' = [calls EXCEPT ![i].pc = "threw"]
    /\ UNCHANGED <<variant, controls, btnDisabled, hidden, errText, location, romVars, pickerVars, convVars>>

UploadIdle ==
    /\ btnDisabled = FALSE
    /\ errText = ""
    /\ location = "page"
    /\ calls = [i \in CallIds |-> NoCall]

InitUpload ==
    /\ variant \in Variants
    /\ hidden = InitHidden
    /\ controls = DefaultControls
    /\ UploadIdle
    /\ RomIdle
    /\ PickerIdle
    /\ ConvIdle

NextUpload ==
    \/ \E i \in CallIds : submitSeed(i)
    \/ \E i \in CallIds, e \in FetchErrors : FetchRejects(i, e)
    \/ \E i \in CallIds, s \in Statuses, b \in JsonBodies \cup TextBodies : FetchResolves(i, s, b)
    \/ \E i \in CallIds : JsonResolves(i)
    \/ \E i \in CallIds : JsonRejects(i)
    \/ \E i \in CallIds : TextResolves(i)
    \/ \E i \in CallIds : TextRejects(i)

SpecUpload == InitUpload /\ [][NextUpload]_vars

\* A promise the browser has handed out settles: the fetch, and the read of the
\* response body, each resolve or reject in the end.  Nothing obliges the user
\* to submit.
Settles(i) ==
    \/ \E e \in FetchErrors : FetchRejects(i, e)
    \/ \E s \in Statuses, b \in JsonBodies \cup TextBodies : FetchResolves(i, s, b)
    \/ JsonResolves(i)
    \/ JsonRejects(i)
    \/ TextResolves(i)
    \/ TextRejects(i)

SpecUploadLive ==
    InitUpload /\ [][NextUpload]_vars /\ \A i \in CallIds : WF_vars(Settles(i))

\* C1: when fetch rejects with e, the error region reads "Error: " followed by
\* the text of e, the page does not navigate, and the submit control is enabled
\* and the upload modal and backdrop hidden when the handler returns.
C1_NetworkErrorReported ==
    [][\A i \in CallIds :
        (calls[i].pc = "fetch" /\ calls'[i].pc = "caught") =>
            /\ calls'[i].e \in FetchErrors
            /\ errText' = "Error: " \o calls'[i].e
            /\ location' = "page"
            /\ ~btnDisabled'
            /\ {"upload-modal", "modal-backdrop"} \subseteq hidden']_vars

C1_Witness ==
    /\ variant = "upload"
    /\ \E i \in CallIds : calls[i].pc = "caught" /\ errText = "Error: " \o calls[i].e
    /\ ~btnDisabled
    /\ "upload-modal" \in hidden

\* C2: when the server answers with a non-success status N and body B, the error
\* region reads exactly "Error status N: B", the page does not navigate, the
\* submit control is enabled and the upload modal and backdrop are hidden.
C2_StatusErrorReported ==
    [][\A i \in CallIds :
        (calls[i].pc = "text" /\ calls'[i].pc = "reported") =>
            /\ ~ResponseOk(calls[i].status)
            /\ errText' = "Error status " \o ToString(calls[i].status) \o ": " \o calls[i].body
            /\ (calls[i].status = 500 /\ calls[i].body = "server error"
                    => errText' = "Error status 500: server error")
            /\ location' = "page"
            /\ ~btnDisabled'
            /\ {"upload-modal", "modal-backdrop"} \subseteq hidden']_vars

C2_Witness ==
    /\ variant = "upload"
    /\ \E i \in CallIds : calls[i].pc = "reported" /\ calls[i].status = 500
    /\ errText = "Error status 500: server error"
    /\ ~btnDisabled
    /\ {"upload-modal", "modal-backdrop"} \subseteq hidden

\* C3: at most one upload request is in flight at any time, whatever the
\* interleaving of submit events and fetch completions.
C3_AtMostOneInFlight ==
    Cardinality({i \in CallIds : InFlight(i)}) <= 1

\* C12: once submitSeed has disabled the submit control, the page eventually
\* either navigates away or has the submit control enabled again with the
\* upload modal and the backdrop hidden, whatever the outcome of the request.
C12_DisabledLeadsToNavigatedOrRestored ==
    btnDisabled ~>
        \/ location # "page"
        \/ ~btnDisabled /\ {"upload-modal", "modal-backdrop"} \subseteq hidden

(***************************************************************************)
(* ROM loader / validator: specification and claims                        *)
(***************************************************************************)

InitRom ==
    /\ variant = "part000"
    /\ hidden = InitHidden
    /\ controls = DefaultControls
    /\ UploadIdle
    /\ romField = "none"
    /\ \E rom \in Roms \cup {"null"} : store = [vanillaRomName |-> rom, vanillaRomData |-> rom]
    /\ loader = [pc |-> "getName", fileName |-> "null"]
    /\ readers = [t \in SaveIds |-> NoReader]
    /\ patches = [t \in PatchIds |-> NoPatch]
    /\ submits = <<>>
    /\ PickerIdle
    /\ ConvIdle

NextRom ==
    \/ LoadROMGetName
    \/ LoadROMGetData
    \/ LoadROMFails
    \/ \E t \in SaveIds, file \in Roms : saveROM(t, file)
    \/ \E t \in SaveIds : ReaderOnload(t)
    \/ \E t \in SaveIds : SetNameDone(t)
    \/ \E t \in SaveIds : SetDataDone(t)
    \/ \E t \in SaveIds : SetItemFails(t)
    \/ \E t \in PatchIds : patchROM(t)
    \/ \E t \in PatchIds : PatchGetItem(t)
    \/ \E t \in PatchIds : PatchDigestRejects(t)
    \/ \E t \in PatchIds : PatchDigestResolves(t)

SpecRom == InitRom /\ [][NextRom]_vars

\* C5: patchROM submits the form exactly when the SHA-256 digest of the stored
\* ROM bytes is the expected digest; on a mismatch the invalid-ROM warning is
\* shown and nothing is submitted; with no ROM selected nothing is submitted.
C5_SubmitGatedOnDigest ==
    [][/\ \A t \in PatchIds :
            (patches[t].pc = "digest" /\ patches'[t].pc # "digest" /\ patches[t].romData # "null") =>
                IF Sha256(patches[t].romData) = ExpectedBytes
                THEN Len(submits') = Len(submits) + 1 /\ hidden' = hidden
                ELSE submits' = submits /\ "romInvalid" \notin hidden'
       /\ submits' # submits =>
            \E t \in PatchIds :
                /\ patches[t].pc = "digest" /\ patches'[t].pc = "submitted"
                /\ patches[t].romData # "null"
                /\ Sha256(patches[t].romData) = ExpectedBytes
       /\ \A t \in PatchIds :
            (patches[t].pc = "idle" /\ patches'[t].pc # "idle" /\ romField = "none") =>
                patches'[t].pc = "returned" /\ submits' = submits /\ hidden' = hidden
       /\ \A t \in PatchIds : patches[t].pc = "returned" => patches'[t].pc = "returned"]_vars

C5_Witness ==
    /\ \E t \in PatchIds : patches[t].pc = "submitted"
    /\ \E t \in PatchIds : patches[t].pc = "invalid"
    /\ Len(submits) = 1
    /\ "romInvalid" \notin hidden

\* C11: whenever patchROM submits the form, the bytes whose digest it checked
\* are the bytes of the file the rom field holds at that moment.
C11_SubmitChecksFieldBytes ==
    \A k \in DOMAIN submits : submits[k].romData = submits[k].field

(***************************************************************************)
(* Colour picker: specification and claims                                 *)
(***************************************************************************)

InitPicker ==
    /\ variant = "part000"
    /\ hidden = InitHidden
    /\ controls = DefaultControls
    /\ UploadIdle
    /\ RomIdle
    /\ PickerLoaded
    /\ ConvIdle

NextPicker ==
    \/ EtankButtonClick
    \/ MouseDownPicker
    \/ MouseDownSlider
    \/ \E ev \in Pointers : MouseMove(ev[1], ev[2])
    \/ MouseUp
    \/ \E text \in HexTexts : HexEdit(text)

SpecPicker == InitPicker /\ [][NextPicker]_vars

\* the bound field and the stored form follow the colour state
FieldFollowsState ==
    /\ form[EtankColor].value = toHex(Uint8Array(hsvToRgb(pickerColorH, pickerColorS, pickerColorV)))
    /\ Has(localStorage, "etankColor")
    /\ Get(localStorage, "etankColor") = form[EtankColor].value
    /\ localStorage = saveForm(form)

\* C4: after any sequence of pointer-driven updates the colour state is in its
\* declared ranges: 0 <= hue < 360, 0 <= saturation <= 1, 0 <= value <= 1.
C4_ColorStateInRange ==
    /\ FGe(pickerColorH, FZero) /\ FLt(pickerColorH, FInt(360))
    /\ FGe(pickerColorS, FZero) /\ FGe(FInt(1), pickerColorS)
    /\ FGe(pickerColorV, FZero) /\ FGe(FInt(1), pickerColorV)

C8_Bytes == [text \in {"#1A2b3C", "1a2B3c"} |-> <<26, 43, 60>>]

C8_HexEditFrame ==
    [][event'.kind = "edit" =>
         IF event'.text \in DOMAIN C8_Bytes
         THEN LET bytes == C8_Bytes[event'.text]
              IN  <<pickerColorH', pickerColorS', pickerColorV'>> =
                      rgbToHsv(FInt(bytes[1]), FInt(bytes[2]), FInt(bytes[3]))
         ELSE /\ UNCHANGED <<pickerColorH, pickerColorS, pickerColorV, localStorage, display>>
              /\ form'[EtankColor].value = event'.text]_vars

C8_Witness ==
    /\ event.kind = "edit"
    /\ event.text = "#1g2b3c"
    /\ form[EtankColor].value = "#1g2b3c"
    /\ pickerColorH = FInt(210)
    /\ Get(localStorage, "etankColor") = "1a2b3c"

(***************************************************************************)
(* Form persistence: specification and claims                              *)
(***************************************************************************)

\* texts typed into the etankColor field while the form is filled in
FormTexts == {"1a2b3c", "1a2b3"}

InitForm ==
    /\ variant = "part000"
    /\ hidden = InitHidden
    /\ controls = DefaultControls
    /\ UploadIdle
    /\ RomIdle
    /\ PickerLoaded
    /\ ConvIdle

NextForm ==
    \/ \E text \in FormTexts : HexEdit(text)
    \/ \E name \in Sprites : selectSprite(name)
    \/ \E i \in ElemIds : CheckRadio(i)
    \/ \E i \in ElemIds : ToggleCheckbox(i)
    \/ SaveForm
    \/ Reload

SpecForm == InitForm /\ [][NextForm]_vars

\* C6: when the form has been saved as it stands and the page is loaded
\* again (loadForm on the fresh form), every control that is not a file
\* field has the value and the checked state it had when saved.
C6_SaveLoadRoundTrip ==
    [][(event'.kind = "load" /\ localStorage = saveForm(form)) =>
         \A i \in ElemIds : Elements[i].type # "file" => form'[i] = form[i]]_vars

(***************************************************************************)
(* HSV and RGB conversions: specification and claims                       *)
(***************************************************************************)

\* the hues examined are the multiples of 360 / HueSteps below 360, the
\* saturations and values the multiples of 1 / UnitSteps up to 1
HueSteps == 12
UnitSteps == 5

HsvInput(i, j, k) ==
    <<FDiv(FInt(360 * i), FInt(HueSteps)), FDiv(FInt(j), FInt(UnitSteps)), FDiv(FInt(k), FInt(UnitSteps))>>

\* hsvToRgb() is called with the colour state holding input
CallHsvToRgb ==
    /\ Len(input) = 3
    /\ input[1] = pickerColorH /\ input[2] = pickerColorS /\ input[3] = pickerColorV
    /\ output = <<>>
    /\ output' = <<hsvToRgb(pickerColorH, pickerColorS, pickerColorV)>>
    /\ UNCHANGED <<input, hidden, variant, controls, uploadVars, romVars, pickerVars>>

\* rgbToHsv is called on the triple hsvToRgb returned
CallRgbToHsv ==
    /\ Len(input) = 3
    /\ Len(output) = 1
    /\ output' = Append(output, rgbToHsv(output[1][1], output[1][2], output[1][3]))
    /\ UNCHANGED <<input, hidden, variant, controls, uploadVars, romVars, pickerVars>>

InitHsv ==
    /\ variant = "part000"
    /\ hidden = InitHidden
    /\ controls = DefaultControls
    /\ UploadIdle
    /\ RomIdle
    /\ \E i \in 0..(HueSteps - 1), j \in 0..UnitSteps, k \in 0..UnitSteps : input = HsvInput(i, j, k)
    /\ output = <<>>
    /\ pickerColorH = input[1]
    /\ pickerColorS = input[2]
    /\ pickerColorV = input[3]
    /\ form = DefaultForm
    /\ localStorage = <<>>
    /\ display = InitDisplay
    /\ isMovingPicker = FALSE
    /\ isMovingSlider = FALSE
    /\ event = [kind |-> "load", text |-> ""]

NextHsv ==
    \/ CallHsvToRgb
    \/ CallRgbToHsv

SpecHsv == InitHsv /\ [][NextHsv]_vars

\* the distance within which two Numbers count as equal: 2^-30
Tolerance == [s |-> 1, m |-> <<1>>, e |-> -30]

Close(a, b) == FGe(Tolerance, FAbs(FSub(a, b)))

\* every channel hsvToRgb returned is in [0, 255]
ChannelsInRange ==
    Len(output) >= 1 =>
        \A k \in 1..3 : FGe(output[1][k], FZero) /\ FGe(FInt(255), output[1][k])

Bytes == 0..255

\* bytes at the ends of the range and around the digit boundaries
ByteSamples == {0, 9, 10, 15, 16, 255}

\* every byte in one channel beside sampled bytes in the two others
HexInputs ==
    { <<r, g, b>> : r \in Bytes, g \in ByteSamples, b \in ByteSamples }
        \cup { <<r, g, b>> : r \in ByteSamples, g \in Bytes, b \in ByteSamples }
        \cup { <<r, g, b>> : r \in ByteSamples, g \in ByteSamples, b \in Bytes }

\* setPickerColor's encoding of the triple: new Uint8Array(pickerColor).toHex()
CallToHex ==
    /\ Len(input) = 3
    /\ input \in Bytes \X Bytes \X Bytes
    /\ output = <<>>
    /\ output' = <<toHex(Uint8Array([k \in 1..3 |-> FInt(input[k])]))>>
    /\ UNCHANGED <<input, hidden, variant, controls, uploadVars, romVars, pickerVars>>

\* pickerValueChanged's parse of the text: the three bytes, or <<>> when the
\* pattern does not match
CallParseHex ==
    /\ Len(input) = 3
    /\ input \in Bytes \X Bytes \X Bytes
    /\ Len(output) = 1
    /\ LET result == RegexExec(output[1])
       IN  output' = Append(output, IF result = <<>> THEN <<>>
                                    ELSE <<ParseInt16(result[1]), ParseInt16(result[2]), ParseInt16(result[3])>>)
    /\ UNCHANGED <<input, hidden, variant, controls, uploadVars, romVars, pickerVars>>

InitHex ==
    /\ variant = "part000"
    /\ hidden = InitHidden
    /\ controls = DefaultControls
    /\ UploadIdle
    /\ RomIdle
    /\ PickerIdle
    /\ input \in HexInputs
    /\ output = <<>>

NextHex ==
    \/ CallToHex
    \/ CallParseHex

SpecHex == InitHex /\ [][NextHex]_vars

\* C10: the hex string generated for a triple of bytes is accepted by the
\* parser of pickerValueChanged and parses back to the same triple.
C10_HexRoundTrip ==
    /\ Len(output) >= 1 => Len(output[1]) = 6
    /\ Len(output) = 2 => output[2] = input

C10_Witness ==
    /\ Len(output) = 2
    /\ input = <<10, 255, 9>>
    /\ output[1] = "0aff09"
    /\ output[2] = input

(***************************************************************************)
(* Button assignments: specification and claims                            *)
(***************************************************************************)

InitControls ==
    /\ variant = "part000"
    /\ hidden = InitHidden
    /\ controls = DefaultControls
    /\ UploadIdle
    /\ RomIdle
    /\ PickerIdle
    /\ ConvIdle

NextControls ==
    \E name \in Actions, k \in DOMAIN Buttons : ClickButtonLabel(name, Buttons[k])

SpecControls == InitControls /\ [][NextControls]_vars

\* no two control actions are on the same button
ButtonsDistinct(groups) ==
    \A a, b \in Actions : a # b => groups[a] # groups[b]

\* C13: from a form whose seven control actions are on pairwise different
\* buttons, a reassignment leaves them on pairwise different buttons: the
\* clicked action and the action that held the chosen button exchange their
\* buttons, and no other action changes.
C13_ButtonsStayDistinct ==
    [][ButtonsDistinct(controls) =>
        /\ ButtonsDistinct(controls')
        /\ \E a, b \in Actions :
              controls' = [controls EXCEPT ![a] = controls[b], ![b] = controls[a]]]_vars

C13_Witness ==
    /\ ButtonsDistinct(controls)
    /\ controls = [DefaultControls EXCEPT !["control_shot"] = "A", !["control_jump"] = "X"]

====
